---- MODULE Spec2Model ----
(***************************************************************************)
(* Model of SolarPV/NasaData.py: the NASA POWER request formulation, the   *)
(* site elevation lookup and the day-of-year climatology reduction.        *)
(*                                                                         *)
(* Representation.                                                         *)
(*  - A Python str is a sequence of one-character strings.                 *)
(*  - None is the empty tuple <<>>, a present value v is <<v>>.            *)
(*  - A coordinate is an integer number of 1e-4 degrees, an elevation an   *)
(*    integer number of metres.                                            *)
(*  - A calendar date is a record [year, month, day]; the 8-digit key      *)
(*    "YYYYMMDD" of a daily series is carried as the number it spells.     *)
(*  - A call returns [exc |-> "none", ret |-> value] or                    *)
(*    [exc |-> <exception class>, ret |-> <<>>].                           *)
(***************************************************************************)
EXTENDS Integers, Sequences, FiniteSets, TLC

VARIABLES
    today,      \* the wall clock, dt.date.today()
    call,       \* arguments and environment of the call under way or last made
    result,     \* what that call returned or raised
    df,         \* LoadNasaData: the joined table after the leap-year filter
    pc          \* "idle" before a call returns, "done" after

vars == <<today, call, result, df, pc>>

----------------------------------------------------------------------------
(* Bounds of the model. *)

\* the clock runs for ClockDays days from FirstDay, across a year boundary
ClockDays == 5
\* a daily series of the payload has at most MaxRows entries
MaxRows == 3

----------------------------------------------------------------------------
(* Python values. *)

None == <<>>
Some(v) == <<v>>

Returned(v) == [exc |-> "none", ret |-> v]
Raised(e) == [exc |-> e, ret |-> None]

DigitChars == <<"0", "1", "2", "3", "4", "5", "6", "7", "8", "9">>

RECURSIVE NatStr(_)
NatStr(n) ==
    IF n < 10 THEN <<DigitChars[n + 1]>>
    ELSE NatStr(n \div 10) \o <<DigitChars[(n % 10) + 1]>>

\* str(n) for an integer n
Str(n) == IF n < 0 THEN <<"-">> \o NatStr(0 - n) ELSE NatStr(n)

RECURSIVE Join(_, _)
\* sep.join(parts)
Join(sep, parts) ==
    IF parts = <<>> THEN <<>>
    ELSE IF Len(parts) = 1 THEN parts[1]
    ELSE parts[1] \o sep \o Join(sep, Tail(parts))

RECURSIVE SplitFrom(_, _, _)
SplitFrom(s, sep, cur) ==
    IF s = <<>> THEN <<cur>>
    ELSE IF Head(s) = sep THEN <<cur>> \o SplitFrom(Tail(s), sep, <<>>)
    ELSE SplitFrom(Tail(s), sep, Append(cur, Head(s)))

\* s.split(sep) for a one-character separator: "".split(",") is [""]
Split(s, sep) == SplitFrom(s, sep, <<>>)

RECURSIVE QuotePlus(_)
\* urllib.parse.quote_plus over the characters that occur here: letters,
\* digits, "_", "." and "-" pass through, "," becomes "%2C"
QuotePlus(s) ==
    IF s = <<>> THEN <<>>
    ELSE (IF Head(s) = "," THEN <<"%", "2", "C">> ELSE <<Head(s)>>)
         \o QuotePlus(Tail(s))

\* urllib.parse.urlencode(parameters): every value is quoted
UrlEncode(parameters) ==
    [k \in DOMAIN parameters |-> QuotePlus(parameters[k])]

\* buildUrl(host, path, parameters): the components urlunsplit puts together
buildUrl(host, path, parameters) ==
    [scheme |-> "https", host |-> host, path |-> path,
     query |-> UrlEncode(parameters)]

NASA_host == "power.larc.nasa.gov"

----------------------------------------------------------------------------
(* The calendar. *)

IsLeap(y) == (y % 4 = 0 /\ y % 100 # 0) \/ y % 400 = 0

DaysInMonth(y, m) ==
    IF m = 2 THEN (IF IsLeap(y) THEN 29 ELSE 28)
    ELSE IF m \in {4, 6, 9, 11} THEN 30 ELSE 31

Date(y, m, d) == [year |-> y, month |-> m, day |-> d]

RECURSIVE DaysBefore(_, _)
\* the days of year y that precede month m
DaysBefore(y, m) ==
    IF m = 1 THEN 0 ELSE DaysBefore(y, m - 1) + DaysInMonth(y, m - 1)

\* DatetimeIndex.dayofyear
DayOfYear(dt) == DaysBefore(dt.year, dt.month) + dt.day

\* the day after dt
NextDay(dt) ==
    IF dt.day < DaysInMonth(dt.year, dt.month)
        THEN Date(dt.year, dt.month, dt.day + 1)
    ELSE IF dt.month < 12 THEN Date(dt.year, dt.month + 1, 1)
    ELSE Date(dt.year + 1, 1, 1)

----------------------------------------------------------------------------
(* formulateRequest *)

T10M == <<"T", "1", "0", "M">>
T10M_MAX == <<"T", "1", "0", "M", "_", "M", "A", "X">>
T10M_MIN == <<"T", "1", "0", "M", "_", "M", "I", "N">>
WS10M == <<"W", "S", "1", "0", "M">>
WS10M_MAX == <<"W", "S", "1", "0", "M", "_", "M", "A", "X">>
WS10M_MIN == <<"W", "S", "1", "0", "M", "_", "M", "I", "N">>

\* the codes of stdparms, in the order of the list
stdparms == <<T10M, T10M_MAX, T10M_MIN, WS10M, WS10M_MAX, WS10M_MIN>>

\* a variant that takes the current year as the base year
BaseYearNoLag(now) == now.year

\* baseyear = now.year-1
BaseYear(now) == now.year - 1

\* startdate='{0}0101'.format(baseyear-9)
StartDate(baseyear) == Str(baseyear - 9) \o <<"0", "1", "0", "1">>

\* enddate ='{0}1231'.format(baseyear)
EndDate(baseyear) == Str(baseyear) \o <<"1", "2", "3", "1">>

RECURSIVE SelectAll(_, _)
\* a variant that ignores the selection
SelectAll(std, selectparms) ==
    IF std = <<>> THEN <<>>
    ELSE <<Head(std)>> \o SelectAll(Tail(std), selectparms)

RECURSIVE Select(_, _)
\* the loop over stdparms: a code is taken when no selection was passed or
\* when it is a member of the selection
Select(std, selectparms) ==
    IF std = <<>> THEN <<>>
    ELSE (IF selectparms = None \/ Head(std) \in selectparms[1]
             THEN <<Head(std)>> ELSE <<>>)
         \o Select(Tail(std), selectparms)

formulateRequest(now, lat, lon, selectparms) ==
    LET baseyear == BaseYear(now)
        parms == Select(stdparms, selectparms)
        reqparms == Join(<<",">>, parms)
        query_parameters ==
            [parameters |-> reqparms,
             start |-> StartDate(baseyear),
             end |-> EndDate(baseyear),
             community |-> <<"s", "b">>,
             format |-> <<"j", "s", "o", "n">>,
             latitude |-> Str(lat),
             longitude |-> Str(lon),
             user |-> <<"a", "n", "o", "n", "y", "m", "o", "u", "s">>]
    IN  [url |-> buildUrl(NASA_host, "/api/temporal/daily/point",
                          query_parameters),
         cols |-> Split(reqparms, ",")]

----------------------------------------------------------------------------
(* The callers' inputs. *)

\* the clock starts three days before a year ends, in a leap year
FirstDay == Date(2024, 12, 29)

\* the date as the number YYYYMMDD
DateNum(dt) == dt.year * 10000 + dt.month * 100 + dt.day

RECURSIVE DaysLater(_, _)
DaysLater(dt, n) == IF n = 0 THEN dt ELSE DaysLater(NextDay(dt), n - 1)

\* a code the service knows and stdparms does not hold
PS == <<"P", "S">>

\* selectparms: absent, empty, unrecognized only, one code, two codes, two
\* codes with an unrecognized one, all six
Selections ==
    {None, Some({}), Some({PS}), Some({WS10M}), Some({WS10M, T10M}),
     Some({T10M_MAX, PS, T10M}), Some({stdparms[i] : i \in 1..6})}

\* the site of main() and another site
HereLat == -2739
HereLon == 363765
Here == <<HereLat, HereLon>>
There == <<515000, -1278>>
Sites == {Here, There}

----------------------------------------------------------------------------
(* Specification SpecFormulate: formulateRequest is called again and again *)
(* while the wall clock advances.                                          *)

InitFormulate ==
    /\ today = FirstDay
    /\ call = None
    /\ result = None
    /\ df = <<>>
    /\ pc = "idle"

\* a day passes
Tick ==
    /\ DateNum(NextDay(today)) <= DateNum(DaysLater(FirstDay, ClockDays))
    /\ today' = NextDay(today)
    /\ UNCHANGED <<call, result, df, pc>>

CallFormulateRequest ==
    \E site \in Sites, sel \in Selections :
        /\ call' = Some([now |-> today, lat |-> site[1], lon |-> site[2],
                         selectparms |-> sel])
        /\ result' = Some(formulateRequest(today, site[1], site[2], sel))
        /\ pc' = "done"
        /\ UNCHANGED <<today, df>>

NextFormulate == Tick \/ CallFormulateRequest

SpecFormulate == InitFormulate /\ [][NextFormulate]_vars

----------------------------------------------------------------------------
(* getLocationData and getSiteElevation *)

\* (None, None, None)
UnknownTriple == <<None, None, None>>

\* NASA uses -999 as NaN
Sentinel == -999

\* the truth value Python gives a number
Truthy(x) == x # 0

\* tuple(coords)
TupleOf(coords) == [i \in DOMAIN coords |-> Some(coords[i])]

\* json.loads(dtin) and the body of the try block: the exception it raises,
\* if any, is in exc
LocationBody(dtin) ==
    IF ~dtin.valid THEN Raised("JSONDecodeError")
    ELSE LET response == dtin.doc
         IN  IF "geometry" \notin DOMAIN response THEN Raised("KeyError")
             ELSE IF "coordinates" \notin DOMAIN response["geometry"]
                 THEN Raised("KeyError")
             ELSE LET coords == response["geometry"]["coordinates"]
                  IN  IF Len(coords) < 3 THEN Raised("IndexError")
                      ELSE IF Truthy(coords[3]) /\ coords[3] # Sentinel
                          THEN Returned(TupleOf(coords))
                      ELSE Returned(UnknownTriple)

\* a variant without the except clause
getLocationDataNoExcept(dtin) == LocationBody(dtin)

\* except KeyError: return (None, None, None)
getLocationData(dtin) ==
    LET r == LocationBody(dtin)
    IN  IF r.exc = "KeyError" THEN Returned(UnknownTriple) ELSE r

\* the URL getSiteElevation requests
ElevationUrl(lat, lon) ==
    buildUrl(NASA_host, "/api/temporal/daily/point",
             [parameters |-> <<"T", "2", "M">>,
              start |-> Str(20230101),
              end |-> Str(20230101),
              community |-> <<"s", "b">>,
              format |-> <<"j", "s", "o", "n">>,
              latitude |-> Str(lat),
              longitude |-> Str(lon),
              user |-> <<"s", "o", "l", "a", "r", "p", "v", "_", "s", "i",
                         "m", "u", "l", "a", "t", "o", "r">>])

\* net is what requests.get(url) does: it raises net.exc, or it returns a
\* response whose text is net.text
getSiteElevation(lat, lon, net) ==
    LET url == ElevationUrl(lat, lon)
        r == IF net.exc = "none" THEN getLocationData(net.text)
             ELSE IF net.exc = "ConnectionError" THEN Returned(UnknownTriple)
             ELSE Raised(net.exc)
    IN  [url |-> url, exc |-> r.exc, ret |-> r.ret]

----------------------------------------------------------------------------
(* Specification SpecElevation: one call of getSiteElevation on an input   *)
(* and a response drawn from the sets below.                               *)

ConnectionFailed == [exc |-> "ConnectionError"]
Responded(text) == [exc |-> "none", text |-> text]

NotJson == [valid |-> FALSE]
Json(doc) == [valid |-> TRUE, doc |-> doc]

\* a POWER response, one without coordinates, and an error message
PointDoc(coords) ==
    [type |-> "Feature",
     geometry |-> [type |-> "Point", coordinates |-> coords]]
NoCoordinatesDoc == [type |-> "Feature", geometry |-> [type |-> "Point"]]
NoGeometryDoc == [header |-> "error", messages |-> <<"no data">>]

Elevations == {Sentinel, -1000, -998, -28, 0, 1, 450, 8848}

\* the service reports (lon, lat) on its own half-degree grid
GridLons == {HereLon, 365000}
GridLats == {HereLat, -2500}

ElevationResponses ==
    {ConnectionFailed, Responded(NotJson), Responded(Json(NoGeometryDoc)),
     Responded(Json(NoCoordinatesDoc))}
    \cup {Responded(Json(PointDoc(<<x, y>>))) : x \in GridLons, y \in GridLats}
    \cup {Responded(Json(PointDoc(<<x, y, z>>))) :
              x \in GridLons, y \in GridLats, z \in Elevations}

InitElevation ==
    /\ today = FirstDay
    /\ \E site \in Sites, net \in ElevationResponses :
           call = Some([lat |-> site[1], lon |-> site[2], net |-> net])
    /\ result = None
    /\ df = <<>>
    /\ pc = "idle"

CallGetSiteElevation ==
    /\ pc = "idle"
    /\ result' = Some(getSiteElevation(call[1].lat, call[1].lon, call[1].net))
    /\ pc' = "done"
    /\ UNCHANGED <<today, call, df>>

NextElevation == CallGetSiteElevation

SpecElevation == InitElevation /\ [][NextElevation]_vars

----------------------------------------------------------------------------
(* LoadNasaData *)

\* pd.to_datetime of the key "YYYYMMDD"
ToDatetime(key) ==
    Date(key \div 10000, (key \div 100) % 100, key % 100)

\* pd.json_normalize(series).T with the index converted to dates and column
\* 0 renamed to c: one row per entry of the series, in the order of its keys
FirstFrame(c, series) ==
    [i \in DOMAIN series |->
        [index |-> ToDatetime(series[i][1]), vals |-> (c :> series[i][2])]]

\* dfc.index = pd.to_datetime(df.index): the later frame takes the index of
\* df, entry by entry
DfcIndex(frame, series) == [i \in DOMAIN frame |-> frame[i].index]

\* one turn of the loop over cols[1:]: the frame of series c gets its index
\* (a ValueError when the lengths differ) and is joined to df on the index
JoinColumn(frame, c, series) ==
    IF Len(series) # Len(frame) THEN Raised("ValueError")
    ELSE LET idx == DfcIndex(frame, series)
             dfc == [i \in DOMAIN series |->
                        [index |-> idx[i], val |-> series[i][2]]]
             Match(i) == {j \in DOMAIN dfc : dfc[j].index = frame[i].index}
         IN  Returned(
                 [i \in DOMAIN frame |->
                     [index |-> frame[i].index,
                      vals |-> frame[i].vals @@
                               (c :> dfc[CHOOSE j \in Match(i) : TRUE].val)]])

RECURSIVE JoinAll(_, _, _)
\* the loop over cols[1:]; a code the payload lacks is a KeyError
JoinAll(frame, rest, parameter) ==
    IF rest = <<>> THEN Returned(frame)
    ELSE IF Head(rest) \notin DOMAIN parameter THEN Raised("KeyError")
    ELSE LET r == JoinColumn(frame, Head(rest), parameter[Head(rest)])
         IN  IF r.exc # "none" THEN r
             ELSE JoinAll(r.ret, Tail(rest), parameter)

\* df['DayofYear'] = df.index.dayofyear
WithDayOfYear(frame) ==
    [i \in DOMAIN frame |->
        [index |-> frame[i].index, vals |-> frame[i].vals,
         DayofYear |-> DayOfYear(frame[i].index)]]

\* a variant that keeps every row
KeepAll(row) == TRUE

\* df['DayofYear'] != 366
Keep(row) == row.DayofYear # 366

\* df = df[df['DayofYear'] != 366]
DropLeap(frame) == SelectSeq(frame, Keep)

\* the values of column col in the group of day-of-year d, in row order
RECURSIVE GroupValues(_, _, _)
GroupValues(frame, col, d) ==
    IF frame = <<>> THEN <<>>
    ELSE (IF Head(frame).DayofYear = d THEN <<Head(frame).vals[col]>>
          ELSE <<>>)
         \o GroupValues(Tail(frame), col, d)

RECURSIVE SeqMin(_)
SeqMin(v) ==
    IF Len(v) = 1 THEN v[1]
    ELSE LET m == SeqMin(Tail(v)) IN IF v[1] < m THEN v[1] ELSE m

RECURSIVE SeqMax(_)
SeqMax(v) ==
    IF Len(v) = 1 THEN v[1]
    ELSE LET m == SeqMax(Tail(v)) IN IF v[1] > m THEN v[1] ELSE m

RECURSIVE SeqSum(_)
SeqSum(v) == IF v = <<>> THEN 0 ELSE v[1] + SeqSum(Tail(v))

RECURSIVE Gcd(_, _)
Gcd(a, b) == IF b = 0 THEN a ELSE Gcd(b, a % b)

Abs(a) == IF a < 0 THEN 0 - a ELSE a

\* the fraction a/b, b > 0, in lowest terms
Rat(a, b) ==
    LET g == Gcd(Abs(a), b) IN [num |-> a \div g, den |-> b \div g]

\* not-a-number
NaN == [nan |-> TRUE]

\* the non-negative square root of the fraction r
Sqrt(r) == [sqrt |-> r]

\* mean(): the sum over the count
Mean(v) == Rat(SeqSum(v), Len(v))

\* the sum over v of (Len(v) * x - sum(v))^2, which is Len(v)^2 times the
\* sum of the squared deviations from the mean
RECURSIVE ScaledSquares(_, _, _)
ScaledSquares(v, n, total) ==
    IF v = <<>> THEN 0
    ELSE (n * v[1] - total) * (n * v[1] - total)
         + ScaledSquares(Tail(v), n, total)

\* a variant with the population estimator
StdPopulation(v) ==
    LET n == Len(v)
    IN  Sqrt(Rat(ScaledSquares(v, n, SeqSum(v)), n * n * n))

\* std(): ddof = 1, the squared deviations over n - 1, NaN for one value
Std(v) ==
    LET n == Len(v)
    IN  IF n - 1 <= 0 THEN NaN
        ELSE Sqrt(Rat(ScaledSquares(v, n, SeqSum(v)), n * n * (n - 1)))

\* the row of one group: the four joined columns
StatRow(v) ==
    [k \in {"Min", "Max", "S-Mean", "STDV"} |->
        CASE k = "Min" -> SeqMin(v)
          [] k = "Max" -> SeqMax(v)
          [] k = "S-Mean" -> Mean(v)
          [] k = "STDV" -> Std(v)]

\* dg = df.groupby('DayofYear') and the loop over cols
Aggregate(frame, cols) ==
    LET keys == {frame[i].DayofYear : i \in DOMAIN frame}
    IN  [col \in {cols[i] : i \in DOMAIN cols} |->
            [d \in keys |-> StatRow(GroupValues(frame, col, d))]]

\* the site formulateRequest is called with
FixedLat == -2739
FixedLon == 363765

\* cmd = formulateRequest(-0.2739, 36.3765, selectparms)
LoadRequest(now, lat, lon, selectparms) ==
    formulateRequest(now, FixedLat, FixedLon, selectparms)

\* net is what requests.get(cmd[0]) does: it raises net.exc, or it returns
\* a response whose .json() is net.json
LoadNasaData(now, lat, lon, selectparms, net) ==
    LET cmd == LoadRequest(now, lat, lon, selectparms)
        cols == cmd.cols
        Out(r, frame) ==
            [cmd |-> cmd, exc |-> r.exc, ret |-> r.ret, df |-> frame]
    IN  IF net.exc # "none" THEN Out(Raised(net.exc), <<>>)
        ELSE LET parameter == net.json["properties"]["parameter"]
             IN  IF cols[1] \notin DOMAIN parameter
                     THEN Out(Raised("KeyError"), <<>>)
                 ELSE LET joined ==
                              JoinAll(FirstFrame(cols[1], parameter[cols[1]]),
                                      Tail(cols), parameter)
                      IN  IF joined.exc # "none" THEN Out(joined, <<>>)
                          ELSE LET frame ==
                                       DropLeap(WithDayOfYear(joined.ret))
                               IN  Out(Returned(Aggregate(frame, cols)),
                                       frame)

----------------------------------------------------------------------------
(* Specification SpecLoad: one call of LoadNasaData on a caller's          *)
(* arguments and a response drawn from the sets below.                     *)

\* the days the payload may hold: a leap day, the March 1 of the next year,
\* and the last day of the leap year and of the common year
LoadKeys == {20200229, 20201231, 20210301, 20211231}

\* the values a day may hold: the service's "no data" value and two readings
LoadValues == {Sentinel, 1, 4}

RECURSIVE Ascending(_)
\* the numbers of S in increasing order
Ascending(S) ==
    IF S = {} THEN <<>>
    ELSE LET m == CHOOSE x \in S : \A y \in S : x <= y
         IN  <<m>> \o Ascending(S \ {m})

Reverse(q) == [i \in DOMAIN q |-> q[Len(q) + 1 - i]]

KeySets == {S \in SUBSET LoadKeys : Cardinality(S) \in 1..MaxRows}

\* the series of a JSON object whose keys are in chronological order
Chronological ==
    UNION {{[i \in 1..Cardinality(S) |-> <<Ascending(S)[i], f[Ascending(S)[i]]>>] :
               f \in [S -> LoadValues]} : S \in KeySets}

\* the first-listed (temperature) series are chronological, the wind series
\* chronological or latest first
TemperatureSeries == Chronological
WindSeries == Chronological \cup {Reverse(q) : q \in Chronological}

\* the payload holds a series for every code the request names
Payload(codes, s1, s2) ==
    [properties |->
        [parameter |->
            [c \in codes |->
                IF c \in {T10M, T10M_MAX, T10M_MIN} THEN s1 ELSE s2]]]

RespondedJson(json) == [exc |-> "none", json |-> json]

\* what the service may answer to a request for the codes of cols
LoadResponses(cols) ==
    LET codes == {c \in {stdparms[i] : i \in DOMAIN stdparms} :
                     \E k \in DOMAIN cols : cols[k] = c}
    IN  {ConnectionFailed}
        \cup {RespondedJson(Payload(codes, s1, s2)) :
                  s1 \in TemperatureSeries, s2 \in WindSeries}

\* who calls: main() for its own site, and callers for another site
Callers ==
    {[lat |-> Here[1], lon |-> Here[2], selectparms |-> None],
     [lat |-> Here[1], lon |-> Here[2], selectparms |-> Some({WS10M})],
     [lat |-> There[1], lon |-> There[2],
      selectparms |-> Some({WS10M, T10M})],
     [lat |-> There[1], lon |-> There[2], selectparms |-> Some({})]}

InitLoad ==
    /\ today = FirstDay
    /\ \E who \in Callers :
         \E net \in LoadResponses(LoadRequest(FirstDay, who.lat, who.lon,
                                               who.selectparms).cols) :
           call = Some([lat |-> who.lat, lon |-> who.lon,
                        selectparms |-> who.selectparms, net |-> net])
    /\ result = None
    /\ df = <<>>
    /\ pc = "idle"

CallLoadNasaData ==
    /\ pc = "idle"
    /\ LET r == LoadNasaData(today, call[1].lat, call[1].lon,
                             call[1].selectparms, call[1].net)
       IN  /\ result' = Some([cmd |-> r.cmd, exc |-> r.exc, ret |-> r.ret])
           /\ df' = r.df
    /\ pc' = "done"
    /\ UNCHANGED <<today, call>>

NextLoad == CallLoadNasaData

SpecLoad == InitLoad /\ [][NextLoad]_vars

----------------------------------------------------------------------------
(* Reading a URL back, as urllib.parse.parse_qs does. *)

RECURSIVE UnquotePlus(_)
UnquotePlus(s) ==
    IF s = <<>> THEN <<>>
    ELSE IF Len(s) >= 3 /\ SubSeq(s, 1, 3) = <<"%", "2", "C">>
        THEN <<",">> \o UnquotePlus(SubSeq(s, 4, Len(s)))
    ELSE <<Head(s)>> \o UnquotePlus(Tail(s))

\* the decoded value of a query field of a URL
Field(url, k) == UnquotePlus(url.query[k])

DigitVal(c) == CHOOSE i \in 0..9 : DigitChars[i + 1] = c

RECURSIVE ParseNat(_)
ParseNat(s) ==
    IF s = <<>> THEN 0
    ELSE ParseNat(SubSeq(s, 1, Len(s) - 1)) * 10 + DigitVal(s[Len(s)])

\* int(s) for a decimal numeral with an optional sign
ParseInt(s) ==
    IF s # <<>> /\ Head(s) = "-" THEN 0 - ParseNat(Tail(s)) ELSE ParseNat(s)

----------------------------------------------------------------------------
(* Claims about formulateRequest, under SpecFormulate. *)

Canonical == {stdparms[i] : i \in DOMAIN stdparms}

Position(c) == CHOOSE i \in DOMAIN stdparms : stdparms[i] = c

\* the canonical codes the caller's selection asks for
Wanted(selectparms) ==
    {c \in Canonical : selectparms = None \/ c \in selectparms[1]}

\* cols is the canonical list filtered to the selection
IsCanonicalFilter(cols, selectparms) ==
    /\ \A i \in DOMAIN cols : cols[i] \in Canonical
    /\ {cols[i] : i \in DOMAIN cols} = Wanted(selectparms)
    /\ \A i, j \in DOMAIN cols :
           i < j => Position(cols[i]) < Position(cols[j])

FormulateDone == pc = "done" /\ call # None /\ result # None

\* C1 as stated: for every selection the returned list is a non-empty list of
\* canonical codes in canonical order, equal to the canonical list filtered to
\* the selection, and the comma-split of the URL's parameters field is that list
C1_Original ==
    FormulateDone =>
        LET cols == result[1].cols
        IN  /\ cols # <<>>
            /\ IsCanonicalFilter(cols, call[1].selectparms)
            /\ Split(Field(result[1].url, "parameters"), ",") = cols

\* C1 amended: when the selection is absent or holds at least one canonical
\* code, the returned list is the non-empty canonical list filtered to the
\* selection; when it holds none, the returned list is the one-element list
\* [""]; in both cases the comma-split of the URL's parameters field is the
\* returned list
C1_CodeList ==
    FormulateDone =>
        LET cols == result[1].cols
            sel == call[1].selectparms
        IN  /\ cols # <<>>
            /\ Wanted(sel) # {} => IsCanonicalFilter(cols, sel)
            /\ Wanted(sel) = {} => cols = << <<>> >>
            /\ Split(Field(result[1].url, "parameters"), ",") = cols

\* a call that selected only an unrecognized code has returned [""]
C1_Witness ==
    /\ FormulateDone
    /\ call[1].selectparms = Some({PS})
    /\ result[1].cols = << <<>> >>

\* C3: every call's window starts on January 1 of Y-9 and ends on December 31
\* of Y, where Y is the year of the clock at that call minus 1: ten full
\* years that end before the current year, whatever was returned before
C3_Window ==
    FormulateDone =>
        LET Y == call[1].now.year - 1
            start == ParseNat(Field(result[1].url, "start"))
            end == ParseNat(Field(result[1].url, "end"))
        IN  /\ start = (Y - 9) * 10000 + 101
            /\ end = Y * 10000 + 1231
            /\ (end \div 10000) - (start \div 10000) + 1 = 10
            /\ end \div 10000 < call[1].now.year

\* C3: a call made at the clock's current date returns the window of the
\* clock's current year, also when an earlier call returned another window
C3_Recomputed ==
    [][(result' # result /\ result # None) =>
          /\ ParseNat(Field(result'[1].url, "end")) \div 10000 = today.year - 1
          /\ (today.year # call[1].now.year =>
                 Field(result'[1].url, "start") # Field(result[1].url, "start"))
      ]_vars

\* a call made after the year boundary, following a call made before it
C3_Witness ==
    /\ FormulateDone
    /\ call[1].now.year = FirstDay.year + 1
    /\ today.year = FirstDay.year + 1
    /\ ParseNat(Field(result[1].url, "end")) = FirstDay.year * 10000 + 1231

----------------------------------------------------------------------------
(* Claims about getLocationData and getSiteElevation, under SpecElevation. *)

ElevationDone == pc = "done" /\ call # None /\ result # None

\* the response is JSON whose geometry.coordinates holds three numbers
HasTriple(net) ==
    /\ net.exc = "none"
    /\ net.text.valid
    /\ "geometry" \in DOMAIN net.text.doc
    /\ "coordinates" \in DOMAIN net.text.doc["geometry"]
    /\ Len(net.text.doc["geometry"]["coordinates"]) = 3

CoordsOf(net) == net.text.doc["geometry"]["coordinates"]

\* the response is JSON without the key path geometry.coordinates
LacksKeyPath(net) ==
    /\ net.exc = "none"
    /\ net.text.valid
    /\ \/ "geometry" \notin DOMAIN net.text.doc
       \/ "coordinates" \notin DOMAIN net.text.doc["geometry"]

\* C4 as stated: for a response with coordinates [lon, lat, elev] the result
\* is the unknown triple if and only if elev is -999, and (lon, lat, elev)
\* otherwise, an elevation of 0 included
C4_SentinelOnly ==
    (ElevationDone /\ HasTriple(call[1].net)) =>
        LET c == CoordsOf(call[1].net)
        IN  /\ result[1].exc = "none"
            /\ result[1].ret = UnknownTriple <=> c[3] = Sentinel
            /\ c[3] # Sentinel =>
                   result[1].ret = <<Some(c[1]), Some(c[2]), Some(c[3])>>

\* C5: when the transport fails, or the JSON response lacks geometry or
\* geometry.coordinates, getSiteElevation raises nothing and returns the
\* unknown triple
C5_Recovered ==
    (ElevationDone /\ (call[1].net.exc = "ConnectionError"
                         \/ LacksKeyPath(call[1].net))) =>
        /\ result[1].exc = "none"
        /\ result[1].ret = UnknownTriple

\* a response without geometry has been answered with the unknown triple
C5_Witness ==
    /\ ElevationDone
    /\ call[1].net = Responded(Json(NoGeometryDoc))
    /\ result[1].exc = "none"
    /\ result[1].ret = UnknownTriple

----------------------------------------------------------------------------
(* Claims about LoadNasaData, under SpecLoad. *)

LoadDone == pc = "done" /\ call # None /\ result # None

LoadReturned == LoadDone /\ result[1].exc = "none"

\* the series of code c in the payload of the call
SeriesOf(c) == call[1].net.json["properties"]["parameter"][c]

\* the rows of df grouped under day-of-year d
Group(d) == {i \in DOMAIN df : df[i].DayofYear = d}

RECURSIVE SumOver(_, _)
\* the sum of column col over the rows I of df
SumOver(I, col) ==
    IF I = {} THEN 0
    ELSE LET i == CHOOSE x \in I : TRUE
         IN  df[i].vals[col] + SumOver(I \ {i}, col)

RECURSIVE SumSquaresOver(_, _)
SumSquaresOver(I, col) ==
    IF I = {} THEN 0
    ELSE LET i == CHOOSE x \in I : TRUE
         IN  df[i].vals[col] * df[i].vals[col] + SumSquaresOver(I \ {i}, col)

\* row holds the minimum, the maximum, the arithmetic mean and the sample
\* standard deviation (n-1 denominator, not-a-number for one value) of
\* column col over the non-empty set I of rows of df
StatsOver(row, I, col) ==
    LET n == Cardinality(I)
        sum == SumOver(I, col)
        m == row["S-Mean"]
    IN  /\ DOMAIN row = {"Min", "Max", "S-Mean", "STDV"}
        /\ \E i \in I : df[i].vals[col] = row["Min"]
        /\ \A i \in I : row["Min"] <= df[i].vals[col]
        /\ \E i \in I : df[i].vals[col] = row["Max"]
        /\ \A i \in I : row["Max"] >= df[i].vals[col]
        /\ m.den > 0 /\ m.num * n = m.den * sum
        /\ row["Min"] * m.den <= m.num /\ m.num <= row["Max"] * m.den
        /\ n = 1 => DOMAIN row["STDV"] = {"nan"}
        /\ n > 1 =>
               /\ DOMAIN row["STDV"] = {"sqrt"}
               /\ LET r == row["STDV"].sqrt
                  IN  /\ r.den > 0
                      /\ r.num * (n * (n - 1))
                             = r.den * (n * SumSquaresOver(I, col) - sum * sum)

\* C2 as stated: the request LoadNasaData formulates carries the caller's own
\* latitude and longitude
C2_CallerSite ==
    LoadDone =>
        /\ ParseInt(Field(result[1].cmd.url, "latitude")) = call[1].lat
        /\ ParseInt(Field(result[1].cmd.url, "longitude")) = call[1].lon

\* C6: every table's day-of-year keys lie in 1..365, a key is present only
\* if a row of the payload falls on that day of the year, and a group holds
\* at most one row per calendar year of the payload
C6_Keys ==
    LoadReturned =>
        LET cols == result[1].cmd.cols
        IN  \A col \in DOMAIN result[1].ret :
              \A d \in DOMAIN result[1].ret[col] :
                /\ d \in 1..365
                /\ \E c \in DOMAIN cols :
                     \E k \in DOMAIN SeriesOf(cols[c]) :
                         DayOfYear(ToDatetime(SeriesOf(cols[c])[k][1])) = d
                /\ Group(d) # {}
                /\ \A i, j \in Group(d) :
                       i # j => df[i].index.year # df[j].index.year

\* a payload with a December 31 of a leap year and two rows on day 60 has
\* been reduced to a table whose only key is 60
C6_Witness ==
    /\ LoadReturned
    /\ \E k \in DOMAIN SeriesOf(result[1].cmd.cols[1]) :
           SeriesOf(result[1].cmd.cols[1])[k][1] = 20201231
    /\ \A col \in DOMAIN result[1].ret : DOMAIN result[1].ret[col] = {60}
    /\ Cardinality(Group(60)) = 2

\* C7 as stated: in the joined table the value in column c of the row of
\* date D is the value the payload's series of c maps D to
C7_JoinedOnDate ==
    LoadReturned =>
        \A i \in DOMAIN df :
          \A col \in DOMAIN df[i].vals :
            \E k \in DOMAIN SeriesOf(col) :
                /\ ToDatetime(SeriesOf(col)[k][1]) = df[i].index
                /\ SeriesOf(col)[k][2] = df[i].vals[col]

\* C8 as stated: the rows grouped under one day-of-year key have the same
\* month and day, and no February 29 row is in any group
C8_CalendarPosition ==
    LoadReturned =>
        /\ \A i, j \in DOMAIN df :
               df[i].DayofYear = df[j].DayofYear =>
                   /\ df[i].index.month = df[j].index.month
                   /\ df[i].index.day = df[j].index.day
        /\ \A i \in DOMAIN df :
               ~(df[i].index.month = 2 /\ df[i].index.day = 29)

\* C9: the result has one table per code of the formulated list, with one
\* row per day-of-year of the retained rows, and each row holds Min, Max,
\* S-Mean and STDV of that code's values over the group: minimum, maximum,
\* sum/n, and the n-1 standard deviation, not-a-number when n = 1
C9_Statistics ==
    LoadReturned =>
        LET cols == result[1].cmd.cols
        IN  /\ DOMAIN result[1].ret = {cols[c] : c \in DOMAIN cols}
            /\ \A col \in DOMAIN result[1].ret :
                  /\ DOMAIN result[1].ret[col]
                         = {df[i].DayofYear : i \in DOMAIN df}
                  /\ \A d \in DOMAIN result[1].ret[col] :
                         StatsOver(result[1].ret[col][d], Group(d), col)

\* a table holds a group of two different values and a group of one value
C9_Witness ==
    /\ LoadReturned
    /\ \E col \in DOMAIN result[1].ret :
         \E d, e \in DOMAIN result[1].ret[col] :
            /\ Cardinality(Group(d)) = 2
            /\ result[1].ret[col][d]["Min"] < result[1].ret[col][d]["Max"]
            /\ Cardinality(Group(e)) = 1
            /\ result[1].ret[col][e]["STDV"] = NaN

\* C10 as stated: in a group with at least one value other than -999, the
\* four statistics are those of the values other than -999
C10_SentinelSkipped ==
    LoadReturned =>
        \A col \in DOMAIN result[1].ret :
          \A d \in DOMAIN result[1].ret[col] :
            LET real == {i \in Group(d) : df[i].vals[col] # Sentinel}
            IN  real # {} =>
                    /\ result[1].ret[col][d]["Min"] # Sentinel
                    /\ StatsOver(result[1].ret[col][d], real, col)

====
